---- MODULE Spec2Model ----
(***************************************************************************)
(* Port-scan detector (CSI5742_HW3 / Port_Detector).                       *)
(*                                                                         *)
(* Three threads share the dictionary first_contacts under one             *)
(* threading.Lock:                                                         *)
(*   sniffer                  Sniffer.run               (Sniffer.py)       *)
(*   cleanup                  DictCleaner.run           (DictCleaner.py)   *)
(*   fan_out_rate_calculator  FanOutRateCalculator.run                     *)
(* and detect_ps (PS-Detector.py) starts, stops and joins them.            *)
(*                                                                         *)
(* Python list indices are kept 0-based wherever they are stored           *)
(* (blacklist entries, the tier of an alert); the TLA+ tuples that hold    *)
(* the lists are 1-based, so list[i] of the source is list[i + 1] here.    *)
(***************************************************************************)
EXTENDS Integers, Sequences, FiniteSets, Bags, TLC

VARIABLES
    first_contacts,      \* shared dict: flow key -> timestamp of last contact
    lock,                \* threading.Lock: "free" or the name of its holder
    now,                 \* the clock read by time.time( )
    main_pc,             \* position of detect_ps
    is_running,          \* the is_running attribute of each thread
    pc,                  \* position of each thread in its run( )
    traffic,             \* which traffic sequence the link carries
    delivered,           \* number of frames recvfrom has returned so far
    exc,                 \* exception that ended Sniffer.run, "" if none
    key,                 \* Sniffer.run local: key
    current_time,        \* DictCleaner.run local: current_time
    keys_to_remove,      \* DictCleaner.run local: keys_to_remove
    source_connections,  \* FanOutRateCalculator.run local: source_connections
    blacklist,           \* FanOutRateCalculator.run local: blacklist
    alerts,              \* bag of the reports printed so far
    probe                \* a frame handed to the dissectors on its own, and
                         \* what they returned (used by SpecDissect only)

vars == << first_contacts, lock, now, main_pc, is_running, pc, traffic,
           delivered, exc, key, current_time, keys_to_remove,
           source_connections, blacklist, alerts, probe >>

Threads == { "sniffer", "cleanup", "fan_out_rate_calculator" }

(***************************************************************************)
(* Bounds of the model.                                                    *)
(***************************************************************************)
\* number of ports the scanning source probes in the scan traffic
NumScanPorts == 6

\* the instants at which the clock is observed (seconds)
Instants == { 0, 60, 61, 360 }

(***************************************************************************)
(* Program constants.                                                      *)
(***************************************************************************)
max_age_seconds == 300

agesShuffled == << 60, 1, 300 >>

ages == << 1, 60, 300 >>

max_connections == << 5, 100, 300 >>

(***************************************************************************)
(* Small helpers for Python values.                                        *)
(***************************************************************************)
Min(a, b) == IF a < b THEN a ELSE b

\* buf[:n]
Head_(buf, n) == SubSeq(buf, 1, Min(n, Len(buf)))

\* buf[n:]
Tail_(buf, n) == SubSeq(buf, n + 1, Len(buf))

\* big-endian 16 bit value of two octets (struct format '!H')
unpack_H(buf) == buf[1] * 256 + buf[2]

\* socket.htons on a little-endian host: swap the two octets
htons(x) == (x % 256) * 256 + (x \div 256)

\* time.time( )
time == now

\* a dict without k
DictDel(d, ks) == [k \in DOMAIN d \ ks |-> d[k]]

\* d[k] = v
DictSet(d, k, v) == [x \in DOMAIN d \cup {k} |-> IF x = k THEN v ELSE d[x]]

\* d.get(k, default)
DictGet(d, k, default) == IF k \in DOMAIN d THEN d[k] ELSE default

EmptyDict == [k \in {} |-> 0]

InListNever(i, list) == FALSE

\* i in list
InList(i, list) == \E j \in 1..Len(list) : list[j] = i

(***************************************************************************)
(* Frame dissection (Sniffer.py).  A dissector returns                     *)
(* [raised |-> "", value |-> tuple], or [raised |-> "struct.error"] with   *)
(* an empty value when struct.unpack is handed too few octets.             *)
(***************************************************************************)
HexDigits == << "0", "1", "2", "3", "4", "5", "6", "7",
                "8", "9", "a", "b", "c", "d", "e", "f" >>

UpperOfKept(c) == c

UpperOf(c) ==
    CASE c = "a" -> "A" [] c = "b" -> "B" [] c = "c" -> "C"
      [] c = "d" -> "D" [] c = "e" -> "E" [] c = "f" -> "F"
      [] OTHER -> c

\* '{:02x}'.format( octet ), as the list of its two characters
format_02x(octet) == << HexDigits[(octet \div 16) + 1], HexDigits[(octet % 16) + 1] >>

RECURSIVE JoinChars(_)
JoinChars(cs) == IF cs = << >> THEN "" ELSE Head(cs) \o JoinChars(Tail(cs))

RECURSIVE mac_chars(_)
mac_chars(mac) ==
    IF mac = << >> THEN << >>
    ELSE LET h == format_02x(Head(mac))
         IN  << UpperOf(h[1]), UpperOf(h[2]) >> \o mac_chars(Tail(mac))

mac_format(mac) == JoinChars(mac_chars(mac))

RECURSIVE ipv4_format(_)
ipv4_format(address) ==
    IF address = << >> THEN ""
    ELSE IF Len(address) = 1 THEN ToString(Head(address))
    ELSE ToString(Head(address)) \o "." \o ipv4_format(Tail(address))

Raised == [raised |-> "struct.error", value |-> << >>]

Returned(v) == [raised |-> "", value |-> v]

ethernet_dissect(ethernet_data) ==
    LET hdr == Head_(ethernet_data, 14)
    IN  IF Len(hdr) # 14 THEN Raised
        ELSE Returned(<< mac_format(SubSeq(hdr, 1, 6)),
                         mac_format(SubSeq(hdr, 7, 12)),
                         htons(unpack_H(SubSeq(hdr, 13, 14))),
                         Tail_(ethernet_data, 14) >>)

ipv4_dissect(ip_data) ==
    LET hdr == Head_(ip_data, 20)
    IN  IF Len(hdr) # 20 THEN Raised
        ELSE Returned(<< hdr[10],
                         ipv4_format(SubSeq(hdr, 13, 16)),
                         ipv4_format(SubSeq(hdr, 17, 20)),
                         Tail_(ip_data, 20) >>)

tcp_dissect(transport_data) ==
    LET hdr == Head_(transport_data, 4)
    IN  IF Len(hdr) # 4 THEN Raised
        ELSE Returned(<< unpack_H(SubSeq(hdr, 1, 2)), unpack_H(SubSeq(hdr, 3, 4)) >>)

udp_dissect(transport_data) ==
    LET hdr == Head_(transport_data, 4)
    IN  IF Len(hdr) # 4 THEN Raised
        ELSE Returned(<< unpack_H(SubSeq(hdr, 1, 2)), unpack_H(SubSeq(hdr, 3, 4)) >>)

icmp_dissect(transport_data) ==
    LET hdr == Head_(transport_data, 2)
    IN  IF Len(hdr) # 2 THEN Raised
        ELSE Returned(<< hdr[1], hdr[2] >>)

FlowKeyWithSourcePort(src_ip, dest_ip, src_port, dest_port) ==
    << src_ip, dest_ip, dest_port, src_port >>

\* key = ( src_ip , dest_ip , dest_port )
FlowKey(src_ip, dest_ip, src_port, dest_port) == << src_ip, dest_ip, dest_port >>

(***************************************************************************)
(* The body of one iteration of Sniffer.run after recvfrom returned:       *)
(*   [raised |-> "struct.error"]            the frame could not be unpacked*)
(*   [raised |-> "", contact |-> FALSE]     nothing to record              *)
(*   [raised |-> "", contact |-> TRUE, key |-> k]   a TCP or UDP flow      *)
(***************************************************************************)
NoContact == [raised |-> "", contact |-> FALSE, key |-> << >>]

Failed == [raised |-> "struct.error", contact |-> FALSE, key |-> << >>]

Contact(k) == [raised |-> "", contact |-> TRUE, key |-> k]

TransportLenient(ip) ==
    LET ip_protocol    == ip.value[1]
        transport_data == ip.value[4]
        ports == IF ip_protocol = 6 THEN tcp_dissect(transport_data)
                 ELSE udp_dissect(transport_data)
    IN  IF ip_protocol = 6 \/ ip_protocol = 17
        THEN Contact(FlowKey(ip.value[2], ip.value[3],
                             IF ports.raised # "" THEN 0 ELSE ports.value[1],
                             IF ports.raised # "" THEN 0 ELSE ports.value[2]))
        ELSE NoContact

\* the TCP / UDP branch of the loop body, lines 270 to 288
Transport(ip) ==
    LET ip_protocol    == ip.value[1]
        src_ip         == ip.value[2]
        dest_ip        == ip.value[3]
        transport_data == ip.value[4]
        ports == IF ip_protocol = 6 THEN tcp_dissect(transport_data)
                 ELSE udp_dissect(transport_data)
    IN  IF ip_protocol = 6 \/ ip_protocol = 17
        THEN IF ports.raised # "" THEN Failed
             ELSE Contact(FlowKey(src_ip, dest_ip, ports.value[1], ports.value[2]))
        ELSE NoContact

DissectAnyEthertype(ethernet_data) ==
    LET eth == ethernet_dissect(ethernet_data)
    IN  IF eth.raised # "" THEN Failed
        ELSE LET ip == ipv4_dissect(eth.value[4])
             IN  IF ip.raised # "" THEN Failed ELSE Transport(ip)

Dissect(ethernet_data) ==
    LET eth == ethernet_dissect(ethernet_data)
    IN  IF eth.raised # "" THEN Failed
        ELSE IF eth.value[3] = 8
             THEN LET ip == ipv4_dissect(eth.value[4])
                  IN  IF ip.raised # "" THEN Failed ELSE Transport(ip)
             ELSE NoContact

(***************************************************************************)
(* The link.  recvfrom hands the sniffer the frames of one traffic         *)
(* sequence in order; a frame is the tuple of its octets.                  *)
(***************************************************************************)
Scanner == << 10, 0, 0, 5 >>

Host == << 10, 0, 0, 7 >>

Target == << 10, 0, 0, 1 >>

MacA == << 0, 26, 43, 60, 77, 94 >>

MacB == << 222, 173, 190, 239, 0, 1 >>

\* two octets of a 16 bit value in network byte order
pack_H(x) == << x \div 256, x % 256 >>

\* an Ethernet header, an IPv4 header without options, and the two ports
BuildFrame(dest_mac, src_mac, ethertype, ip_protocol, src, dst, src_port, dest_port) ==
    dest_mac \o src_mac \o pack_H(ethertype)
    \o << 69, 0, 0, 40, 0, 0, 0, 0, 64, ip_protocol, 0, 0 >> \o src \o dst
    \o pack_H(src_port) \o pack_H(dest_port)

ScanFrame(p) == BuildFrame(MacB, MacA, 2048, 6, Scanner, Target, 40000 + p, p)

TcpFrame(src_port) == BuildFrame(MacB, MacA, 2048, 6, Host, Target, src_port, 443)

UdpFrame == BuildFrame(MacB, MacA, 2048, 17, Host, Target, 5353, 53)

IcmpFrame == BuildFrame(MacB, MacA, 2048, 1, Host, Target, 2048, 0)

ArpFrame == BuildFrame(MacB, MacA, 2054, 6, Host, Target, 1000, 443)

Traffic ==
    [ scan      |-> [p \in 1..NumScanPorts |-> ScanFrame(p)],
      mixed     |-> << TcpFrame(1000), TcpFrame(1001), IcmpFrame, ArpFrame,
                       UdpFrame, Head_(TcpFrame(1000), 10) >>,
      short_ip  |-> << UdpFrame, Head_(UdpFrame, 14 + 12) >>,
      short_tcp |-> << TcpFrame(1000), Head_(TcpFrame(1002), 14 + 20 + 2) >> ]

\* the lines typed at the console, as tuples of characters
Lines == { << >>, << "x" >>, << "X" >>, << "x", "X" >>, << "y" >>, << "x", "x" >>,
           << "X", "x" >> }

\* x in s, for Python strings
IsSubstring(x, s) ==
    \E i \in 0..(Len(s) - Len(x)) : SubSeq(s, i + 1, i + Len(x)) = x

(***************************************************************************)
(* The lock: "with self.lock" blocks until the lock is free and takes it;  *)
(* leaving the block releases it.                                          *)
(***************************************************************************)
LockAcquireNoWait(t) == lock' = t

\* with self.lock: (entry)
LockAcquire(t) == lock = "free" /\ lock' = t

LockReleaseForgotten(t) == UNCHANGED lock

\* with self.lock: (exit)
LockRelease(t) == lock' = "free"

Goto(t, label) == pc' = [pc EXCEPT ![t] = label]

\* no frame is being dissected on its own
NoProbe == << >>

(***************************************************************************)
(* Initial state: detect_ps has built the dictionary, the lock and the     *)
(* three thread objects (is_running = True) and has started none of them.  *)
(***************************************************************************)
Init ==
    /\ first_contacts = EmptyDict
    /\ lock = "free"
    /\ now \in { 0 }
    /\ main_pc = "start_sniffer"
    /\ is_running = [t \in Threads |-> TRUE]
    /\ pc = [t \in Threads |-> "unstarted"]
    /\ traffic \in DOMAIN Traffic
    /\ delivered = 0
    /\ exc = ""
    /\ key = << >>
    /\ current_time = 0
    /\ keys_to_remove = {}
    /\ source_connections = EmptyDict
    /\ blacklist = EmptyDict
    /\ alerts = EmptyBag
    /\ probe = NoProbe

\* the clock moves forward
Tick ==
    /\ \E t \in Instants : t > now /\ now' = t
    /\ UNCHANGED << first_contacts, lock, main_pc, is_running, pc, traffic,
                    delivered, exc, key, current_time, keys_to_remove,
                    source_connections, blacklist, alerts, probe >>

(***************************************************************************)
(* detect_ps (PS-Detector.py)                                              *)
(***************************************************************************)
MainStep(from, to) == main_pc = from /\ main_pc' = to

MainUnchanged == UNCHANGED << first_contacts, lock, now, traffic, delivered, exc,
                              key, current_time, keys_to_remove,
                              source_connections, blacklist, alerts, probe >>

StartThread(t, from, to) ==
    /\ MainStep(from, to)
    /\ Goto(t, IF t = "sniffer" THEN "open" ELSE "loop")
    /\ UNCHANGED is_running
    /\ MainUnchanged

StartSniffer == StartThread("sniffer", "start_sniffer", "start_cleanup")

StartCleanup == StartThread("cleanup", "start_cleanup", "start_calculator")

StartCalculator == StartThread("fan_out_rate_calculator", "start_calculator", "input")

\* x = input( ); if x in 'xX': break, for the line x
ReadLineOf(x) ==
    /\ main_pc = "input"
    /\ main_pc' = IF IsSubstring(x, << "x", "X" >>) THEN "stop_sniffer" ELSE "input"
    /\ UNCHANGED << is_running, pc >>
    /\ MainUnchanged

\* one pass of the input loop, whatever line the console gives
ReadLine == \E x \in Lines : ReadLineOf(x)

StopThread(t, from, to) ==
    /\ MainStep(from, to)
    /\ is_running' = [is_running EXCEPT ![t] = FALSE]
    /\ UNCHANGED pc
    /\ MainUnchanged

StopSniffer == StopThread("sniffer", "stop_sniffer", "stop_cleanup")

StopCleanup == StopThread("cleanup", "stop_cleanup", "stop_calculator")

StopCalculator == StopThread("fan_out_rate_calculator", "stop_calculator", "join_sniffer")

JoinThreadNoWait(t, from, to) ==
    /\ MainStep(from, to)
    /\ UNCHANGED << is_running, pc >>
    /\ MainUnchanged

\* Thread.join returns once run( ) has returned or died of an exception
JoinThread(t, from, to) ==
    /\ MainStep(from, to)
    /\ pc[t] \in { "done", "crashed" }
    /\ UNCHANGED << is_running, pc >>
    /\ MainUnchanged

JoinSniffer == JoinThread("sniffer", "join_sniffer", "join_cleanup")

JoinCleanup == JoinThread("cleanup", "join_cleanup", "join_calculator")

JoinCalculator == JoinThread("fan_out_rate_calculator", "join_calculator", "returned")

(***************************************************************************)
(* Sniffer.run (Sniffer.py)                                                *)
(***************************************************************************)
SnifferUnchanged == UNCHANGED << now, main_pc, is_running, traffic, current_time,
                                 keys_to_remove, source_connections, blacklist,
                                 alerts, probe >>

\* packets = socket.socket( PF_PACKET , SOCK_RAW , ... ): may raise OSError
SnifferOpen ==
    /\ pc["sniffer"] = "open"
    /\ \E opened \in BOOLEAN :
          IF opened
          THEN Goto("sniffer", "loop") /\ UNCHANGED exc
          ELSE Goto("sniffer", "crashed") /\ exc' = "OSError"
    /\ UNCHANGED << first_contacts, lock, delivered, key >>
    /\ SnifferUnchanged

SnifferLoopForever ==
    /\ pc["sniffer"] = "loop"
    /\ Goto("sniffer", "recv")
    /\ UNCHANGED << first_contacts, lock, delivered, exc, key >>
    /\ SnifferUnchanged

\* while self.is_running:
SnifferLoop ==
    /\ pc["sniffer"] = "loop"
    /\ Goto("sniffer", IF is_running["sniffer"] THEN "recv" ELSE "done")
    /\ UNCHANGED << first_contacts, lock, delivered, exc, key >>
    /\ SnifferUnchanged

\* except socket.timeout: continue
SnifferTimeout ==
    /\ pc["sniffer"] = "recv"
    /\ Goto("sniffer", "loop")
    /\ UNCHANGED << first_contacts, lock, delivered, exc, key >>
    /\ SnifferUnchanged

\* recvfrom returns the next frame, which is dissected down to its flow key
SnifferReceive ==
    /\ pc["sniffer"] = "recv"
    /\ delivered < Len(Traffic[traffic])
    /\ delivered' = delivered + 1
    /\ LET r == Dissect(Traffic[traffic][delivered + 1])
       IN  IF r.raised # ""
           THEN Goto("sniffer", "crashed") /\ exc' = r.raised /\ UNCHANGED key
           ELSE IF r.contact
                THEN Goto("sniffer", "lock") /\ key' = r.key /\ UNCHANGED exc
                ELSE Goto("sniffer", "loop") /\ UNCHANGED << exc, key >>
    /\ UNCHANGED << first_contacts, lock >>
    /\ SnifferUnchanged

\* with self.lock:
SnifferAcquire ==
    /\ pc["sniffer"] = "lock"
    /\ LockAcquire("sniffer")
    /\ Goto("sniffer", "cs")
    /\ UNCHANGED << first_contacts, delivered, exc, key >>
    /\ SnifferUnchanged

SnifferUpsertDeadline ==
    /\ pc["sniffer"] = "cs"
    /\ first_contacts' = DictSet(first_contacts, key, time + max_age_seconds)
    /\ LockRelease("sniffer")
    /\ Goto("sniffer", "loop")
    /\ UNCHANGED << delivered, exc, key >>
    /\ SnifferUnchanged

\* self.first_contacts[key] = time.time( ), and the end of the with block
SnifferUpsert ==
    /\ pc["sniffer"] = "cs"
    /\ first_contacts' = DictSet(first_contacts, key, time)
    /\ LockRelease("sniffer")
    /\ Goto("sniffer", "loop")
    /\ UNCHANGED << delivered, exc, key >>
    /\ SnifferUnchanged

(***************************************************************************)
(* DictCleaner.run (DictCleaner.py)                                        *)
(***************************************************************************)
CleanupUnchanged == UNCHANGED << now, main_pc, is_running, traffic, delivered, exc,
                                 key, source_connections, blacklist,
                                 alerts, probe >>

ExpiredEitherWay(reference, timestamp) ==
    \/ reference - timestamp > max_age_seconds
    \/ timestamp - reference > max_age_seconds

ExpiredSwapped(reference, timestamp) == timestamp - reference > max_age_seconds

ExpiredAtLimit(reference, timestamp) == reference - timestamp >= max_age_seconds

\* current_time - self.first_contacts[key] > self.max_age_seconds
Expired(reference, timestamp) == reference - timestamp > max_age_seconds

\* while self.is_running: current_time = time( ); keys_to_remove = []
CleanupLoop ==
    /\ pc["cleanup"] = "loop"
    /\ IF is_running["cleanup"]
       THEN /\ Goto("cleanup", "lock")
            /\ current_time' = time
            /\ keys_to_remove' = {}
       ELSE /\ Goto("cleanup", "done")
            /\ UNCHANGED << current_time, keys_to_remove >>
    /\ UNCHANGED << first_contacts, lock >>
    /\ CleanupUnchanged

\* with self.lock:
CleanupAcquire ==
    /\ pc["cleanup"] = "lock"
    /\ LockAcquire("cleanup")
    /\ Goto("cleanup", "cs")
    /\ UNCHANGED << first_contacts, current_time, keys_to_remove >>
    /\ CleanupUnchanged

\* both for loops under the lock, and the end of the with block
CleanupSweep ==
    /\ pc["cleanup"] = "cs"
    /\ LET expired == { k \in DOMAIN first_contacts :
                          Expired(current_time, first_contacts[k]) }
       IN  /\ keys_to_remove' = expired
           /\ first_contacts' = DictDel(first_contacts, expired)
    /\ LockRelease("cleanup")
    /\ Goto("cleanup", "loop")
    /\ UNCHANGED current_time
    /\ CleanupUnchanged

(***************************************************************************)
(* FanOutRateCalculator.run (FanOutRateCalculator.py)                      *)
(***************************************************************************)
CalculatorUnchanged == UNCHANGED << now, main_pc, is_running, traffic, delivered,
                                    exc, key, keys_to_remove, probe >>

RECURSIVE CountKeyInclusive(_, _, _, _)
CountKeyInclusive(connections, source, age, i) ==
    IF i >= Len(ages) THEN connections
    ELSE IF age <= ages[i + 1]
         THEN LET fan_out_rates == DictGet(connections, source, << 0, 0, 0 >>)
              IN  CountKeyInclusive(DictSet(connections, source,
                                            [fan_out_rates EXCEPT ![i + 1] = @ + 1]),
                                    source, age, i + 1)
         ELSE CountKeyInclusive(connections, source, age, i + 1)

\* the inner loop "for i in range( len( ages ) )" for one key of the dict
RECURSIVE CountKey(_, _, _, _)
CountKey(connections, source, age, i) ==
    IF i >= Len(ages) THEN connections
    ELSE IF age < ages[i + 1]
         THEN LET fan_out_rates == DictGet(connections, source, << 0, 0, 0 >>)
              IN  CountKey(DictSet(connections, source,
                                   [fan_out_rates EXCEPT ![i + 1] = @ + 1]),
                           source, age, i + 1)
         ELSE CountKey(connections, source, age, i + 1)

\* the loop "for key in self.first_contacts.keys( )"
RECURSIVE CountKeys(_, _, _, _)
CountKeys(connections, contacts, keys, reference) ==
    IF keys = {} THEN connections
    ELSE LET k == CHOOSE x \in keys : TRUE
         IN  CountKeys(CountKey(connections, k[1], reference - contacts[k], 0),
                       contacts, keys \ {k}, reference)

ExceedsOrEqual(count, i) == count >= max_connections[i + 1]

\* source_connections[key][i] > max_connections[i]
Exceeds(count, i) == count > max_connections[i + 1]

RECURSIVE DetectStopsAtListed(_, _, _)
DetectStopsAtListed(counts, listed, i) ==
    IF i >= Len(max_connections) THEN -1
    ELSE IF Exceeds(counts[i + 1], i)
         THEN IF InList(i, listed) THEN -1 ELSE i
         ELSE DetectStopsAtListed(counts, listed, i + 1)

\* the loop "for i in range( len( max_connections ) )" for one source:
\* the index that is reported, or -1 when nothing is detected
RECURSIVE Detect(_, _, _)
Detect(counts, listed, i) ==
    IF i >= Len(max_connections) THEN -1
    ELSE IF Exceeds(counts[i + 1], i)
         THEN IF InList(i, listed) THEN Detect(counts, listed, i + 1) ELSE i
         ELSE Detect(counts, listed, i + 1)

\* what is printed for a detected source; a rate is << numerator, denominator >>
Report(source, counts, i) ==
    [ source        |-> source,
      tier          |-> i,
      age           |-> ages[i + 1],
      count         |-> counts[i + 1],
      threshold     |-> max_connections[i + 1],
      fanout_per_1s |-> << counts[3], 300 >>,
      fanout_per_1m |-> << counts[2], 5 >>,
      fanout_per_5m |-> counts[1] ]

\* blacklist[key] = blacklist.get( key , list( ) ) + [i]
Blacklisted(listing, source, i) ==
    DictSet(listing, source, Append(DictGet(listing, source, << >>), i))

\* while self.is_running: source_connections = dict( )
CalculatorLoop ==
    /\ pc["fan_out_rate_calculator"] = "loop"
    /\ IF is_running["fan_out_rate_calculator"]
       THEN /\ Goto("fan_out_rate_calculator", "lock")
            /\ source_connections' = EmptyDict
       ELSE /\ Goto("fan_out_rate_calculator", "done")
            /\ UNCHANGED source_connections
    /\ UNCHANGED << first_contacts, lock, current_time, blacklist, alerts >>
    /\ CalculatorUnchanged

\* with self.lock:
CalculatorAcquire ==
    /\ pc["fan_out_rate_calculator"] = "lock"
    /\ LockAcquire("fan_out_rate_calculator")
    /\ Goto("fan_out_rate_calculator", "cs")
    /\ UNCHANGED << first_contacts, current_time, source_connections, blacklist,
                    alerts >>
    /\ CalculatorUnchanged

CalculatorScanPruning ==
    /\ pc["fan_out_rate_calculator"] = "cs"
    /\ source_connections' =
          CountKeys(source_connections, first_contacts, DOMAIN first_contacts, time)
    /\ first_contacts' =
          DictDel(first_contacts,
                  { k \in DOMAIN first_contacts : time - first_contacts[k] >= ages[3] })
    /\ LockRelease("fan_out_rate_calculator")
    /\ Goto("fan_out_rate_calculator", "alert")
    /\ UNCHANGED << current_time, blacklist, alerts >>
    /\ CalculatorUnchanged

\* current_time = time( ), the scan of the dict, and the end of the with block
CalculatorScan ==
    /\ pc["fan_out_rate_calculator"] = "cs"
    /\ source_connections' =
          CountKeys(source_connections, first_contacts, DOMAIN first_contacts, time)
    /\ LockRelease("fan_out_rate_calculator")
    /\ Goto("fan_out_rate_calculator", "alert")
    /\ UNCHANGED << first_contacts, current_time, blacklist, alerts >>
    /\ CalculatorUnchanged

\* the loop "for key in source_connections.keys( )": thresholds, blacklist, prints
CalculatorAlert ==
    /\ pc["fan_out_rate_calculator"] = "alert"
    /\ LET tier(s) == Detect(source_connections[s], DictGet(blacklist, s, << >>), 0)
           detected == { s \in DOMAIN source_connections : tier(s) # -1 }
       IN  /\ blacklist' =
                 [s \in DOMAIN blacklist \cup detected |->
                     IF s \in detected
                     THEN Blacklisted(blacklist, s, tier(s))[s]
                     ELSE blacklist[s]]
           /\ alerts' = alerts (+) SetToBag({ Report(s, source_connections[s], tier(s)) :
                                               s \in detected })
    /\ Goto("fan_out_rate_calculator", "loop")
    /\ UNCHANGED << first_contacts, lock, current_time, source_connections >>
    /\ CalculatorUnchanged

(***************************************************************************)
(* The system.                                                             *)
(***************************************************************************)
Next ==
    \/ Tick
    \/ StartSniffer \/ StartCleanup \/ StartCalculator
    \/ ReadLine
    \/ StopSniffer \/ StopCleanup \/ StopCalculator
    \/ JoinSniffer \/ JoinCleanup \/ JoinCalculator
    \/ SnifferOpen \/ SnifferLoop \/ SnifferTimeout \/ SnifferReceive
    \/ SnifferAcquire \/ SnifferUpsert
    \/ CleanupLoop \/ CleanupAcquire \/ CleanupSweep
    \/ CalculatorLoop \/ CalculatorAcquire \/ CalculatorScan \/ CalculatorAlert

Spec == Init /\ [][Next]_vars

(***************************************************************************)
(* Scheduling.  Each of the four threads of control is scheduled again and *)
(* again, so a step it can take without waiting is eventually taken:       *)
(* detect_ps once the console has given it a line (input( ) itself may     *)
(* block for ever), and each run( ), where recvfrom returns after at most  *)
(* the 5 s of settimeout.  threading.Lock hands the lock to no waiter in   *)
(* particular, so the fairness on a thread that waits for the lock is only *)
(* the weak one.                                                           *)
(***************************************************************************)
MainNext ==
    \/ StartSniffer \/ StartCleanup \/ StartCalculator
    \/ StopSniffer \/ StopCleanup \/ StopCalculator
    \/ JoinSniffer \/ JoinCleanup \/ JoinCalculator

SnifferNext ==
    \/ SnifferOpen \/ SnifferLoop \/ SnifferTimeout \/ SnifferReceive
    \/ SnifferAcquire \/ SnifferUpsert

CleanupNext == CleanupLoop \/ CleanupAcquire \/ CleanupSweep

CalculatorNext ==
    CalculatorLoop \/ CalculatorAcquire \/ CalculatorScan \/ CalculatorAlert

Fairness ==
    /\ WF_vars(MainNext)
    /\ WF_vars(SnifferNext)
    /\ WF_vars(CleanupNext)
    /\ WF_vars(CalculatorNext)

\* the runs on a link that carries a few flows and one truncated frame
InitFair == Init /\ traffic \in { "short_tcp" }

FairSpec == InitFair /\ [][Next]_vars /\ Fairness

(***************************************************************************)
(* A long run.  The clock can also be observed well after the last of      *)
(* Instants, so that it moves on after the cleaner has read a reference    *)
(* time against which entries are expired; the link carries the mixed      *)
(* traffic.                                                                *)
(***************************************************************************)
LateInstants == { 700 }

TickLate ==
    /\ \E t \in LateInstants : t > now /\ now' = t
    /\ UNCHANGED << first_contacts, lock, main_pc, is_running, pc, traffic,
                    delivered, exc, key, current_time, keys_to_remove,
                    source_connections, blacklist, alerts, probe >>

InitLate == Init /\ traffic \in { "mixed" }

NextLate == Next \/ TickLate

SpecLate == InitLate /\ [][NextLate]_vars

(***************************************************************************)
(* The threshold loop on its own.  A scan of a table of up to some hundred *)
(* flows has left a snapshot for one or two sources, and earlier cycles    *)
(* have recorded some tiers in the blacklist and printed their reports;    *)
(* the calculator is about to run the loop of lines 107 to 142.            *)
(***************************************************************************)
\* counts on both sides of each of the three thresholds
Counts == { 0, 5, 6, 100, 101, 300, 301 }

\* what a scan can leave for a source: the windows are nested, and a source
\* is in the snapshot only with a flow younger than 300 s
Snapshots ==
    { c \in Counts \X Counts \X Counts : c[1] <= c[2] /\ c[2] <= c[3] /\ c[3] >= 1 }

\* blacklist[source]: each index at most once, in the order of the reports
Listings ==
    { l \in UNION { [1..n -> { 0, 1, 2 }] : n \in 0..3 } :
         \A j, k \in 1..Len(l) : j # k => l[j] # l[k] }

\* the least snapshot that gets a source reported for index i
EarlierCounts(i) == [j \in 1..3 |-> IF j >= i + 1 THEN max_connections[i + 1] + 1 ELSE 0]

\* the reports that were printed when the indices of a listing were recorded
EarlierReports(source, listing) ==
    { Report(source, EarlierCounts(listing[j]), listing[j]) : j \in 1..Len(listing) }

\* what is known of the second source, if there is one
SecondSources ==
    { [counts |-> << 6, 6, 6 >>, listing |-> << >>],
      [counts |-> << 6, 6, 6 >>, listing |-> << 0 >>],
      [counts |-> << 0, 101, 101 >>, listing |-> << 0 >>] }

InitThresholds ==
    /\ first_contacts = EmptyDict
    /\ lock = "free"
    /\ now = 360
    /\ main_pc = "input"
    /\ is_running = [t \in Threads |-> TRUE]
    /\ pc = [t \in Threads |-> IF t = "fan_out_rate_calculator" THEN "alert" ELSE "loop"]
    /\ traffic = "scan"
    /\ delivered = Len(Traffic["scan"])
    /\ exc = ""
    /\ key = << >>
    /\ current_time = 0
    /\ keys_to_remove = {}
    /\ probe = NoProbe
    /\ \E c \in Snapshots, l \in Listings :
          LET first == ipv4_format(Scanner)
              other == ipv4_format(Host)
          IN  \/ /\ source_connections = DictSet(EmptyDict, first, c)
                 /\ blacklist = IF l = << >> THEN EmptyDict
                                ELSE DictSet(EmptyDict, first, l)
                 /\ alerts = SetToBag(EarlierReports(first, l))
              \/ \E o \in SecondSources :
                    /\ source_connections =
                          DictSet(DictSet(EmptyDict, first, c), other, o.counts)
                    /\ blacklist =
                          LET b == IF l = << >> THEN EmptyDict
                                   ELSE DictSet(EmptyDict, first, l)
                          IN  IF o.listing = << >> THEN b
                              ELSE DictSet(b, other, o.listing)
                    /\ alerts = SetToBag(EarlierReports(first, l)
                                         \cup EarlierReports(other, o.listing))

NextThresholds == CalculatorAlert

SpecThresholds == InitThresholds /\ [][NextThresholds]_vars

(***************************************************************************)
(* The dissectors on their own.  A frame is built from field values that   *)
(* are known in both forms, as octets and as the text the dissectors are   *)
(* to print, followed by some payload; ethernet_dissect, ipv4_dissect and  *)
(* tcp_dissect or udp_dissect are then applied in the order of Sniffer.run.*)
(***************************************************************************)
Macs == { [octets |-> MacA, text |-> "001A2B3C4D5E"],
          [octets |-> MacB, text |-> "DEADBEEF0001"] }

Addresses == { [octets |-> Scanner, text |-> "10.0.0.5"],
               [octets |-> << 192, 168, 1, 255 >>, text |-> "192.168.1.255"] }

\* IPv4, ARP, IPv6
EtherTypes == { 2048, 2054, 34525 }

\* ICMP, TCP, UDP
Protocols == { 1, 6, 17 }

Ports == { 80, 256, 65535 }

Payloads == { << >>, << 1, 2, 3 >> }

FieldValues ==
    [ dest_mac : Macs, src_mac : Macs, ethertype : EtherTypes,
      ip_protocol : Protocols, src : Addresses, dst : Addresses,
      src_port : Ports, dest_port : Ports, payload : Payloads ]

FrameOf(f) ==
    BuildFrame(f.dest_mac.octets, f.src_mac.octets, f.ethertype, f.ip_protocol,
               f.src.octets, f.dst.octets, f.src_port, f.dest_port) \o f.payload

InitDissect ==
    /\ first_contacts = EmptyDict
    /\ lock = "free"
    /\ now = 0
    /\ main_pc = "start_sniffer"
    /\ is_running = [t \in Threads |-> TRUE]
    /\ pc = [t \in Threads |-> "unstarted"]
    /\ traffic = "scan"
    /\ delivered = 0
    /\ exc = ""
    /\ key = << >>
    /\ current_time = 0
    /\ keys_to_remove = {}
    /\ source_connections = EmptyDict
    /\ blacklist = EmptyDict
    /\ alerts = EmptyBag
    /\ \E f \in FieldValues :
          probe = [stage |-> "frame", fields |-> f, ethernet_data |-> FrameOf(f),
                   ethernet |-> Raised, ipv4 |-> Raised, ports |-> Raised]

DissectUnchanged ==
    UNCHANGED << first_contacts, lock, now, main_pc, is_running, pc, traffic,
                 delivered, exc, key, current_time, keys_to_remove,
                 source_connections, blacklist, alerts >>

DissectEthernet ==
    /\ probe.stage = "frame"
    /\ probe' = [probe EXCEPT !.stage = "ethernet",
                              !.ethernet = ethernet_dissect(probe.ethernet_data)]
    /\ DissectUnchanged

DissectIpv4 ==
    /\ probe.stage = "ethernet"
    /\ probe' = [probe EXCEPT !.stage = "ipv4",
                              !.ipv4 = ipv4_dissect(probe.ethernet.value[4])]
    /\ DissectUnchanged

DissectTcp ==
    /\ probe.stage = "ipv4"
    /\ probe' = [probe EXCEPT !.stage = "tcp",
                              !.ports = tcp_dissect(probe.ipv4.value[4])]
    /\ DissectUnchanged

DissectUdp ==
    /\ probe.stage = "ipv4"
    /\ probe' = [probe EXCEPT !.stage = "udp",
                              !.ports = udp_dissect(probe.ipv4.value[4])]
    /\ DissectUnchanged

NextDissect == DissectEthernet \/ DissectIpv4 \/ DissectTcp \/ DissectUdp

SpecDissect == InitDissect /\ [][NextDissect]_vars

(***************************************************************************)
(* Properties.                                                             *)
(***************************************************************************)
Calculator == "fan_out_rate_calculator"

\* a thread is inside its "with self.lock" block
InCritical(t) == pc[t] = "cs"

\* t takes a step of its own run( )
Steps(t) == pc'[t] # pc[t]

\* C1: mutual exclusion on first_contacts.  At most one of the three threads
\* is inside its with-block, the thread that is inside it is the holder of
\* the lock, and every step that touches the dictionary (the sniffer's
\* upsert, the cleaner's scan and delete, the calculator's scan) is taken by
\* the thread that holds the lock at that moment.
C1_MutualExclusion ==
    /\ [](/\ Cardinality({ t \in Threads : InCritical(t) }) <= 1
          /\ \A t \in Threads : InCritical(t) => lock = t)
    /\ [][/\ SnifferUpsert => lock = "sniffer"
          /\ CleanupSweep => lock = "cleanup"
          /\ CalculatorScan => lock = Calculator
          /\ first_contacts' # first_contacts =>
                \E t \in { "sniffer", "cleanup" } : lock = t /\ InCritical(t) /\ Steps(t)]_vars

\* C1 witness: the sniffer is inside its with-block while both other threads
\* wait for the lock.
C1_Witness ==
    /\ InCritical("sniffer")
    /\ pc["cleanup"] = "lock"
    /\ pc[Calculator] = "lock"
    /\ lock = "sniffer"

\* the reports printed so far for source s and tier i (0, 1 or 2)
RECURSIVE CountReports(_, _, _, _)
CountReports(bag, reports, s, i) ==
    IF reports = {} THEN 0
    ELSE LET r == CHOOSE x \in reports : TRUE
         IN  (IF r.source = s /\ r.tier = i THEN CopiesIn(r, bag) ELSE 0)
             + CountReports(bag, reports \ {r}, s, i)

Emitted(bag, s, i) == CountReports(bag, BagToSet(bag), s, i)

Tiers == { 0, 1, 2 }

\* the thresholds as the documentation states them: 5 / 100 / 300
Thresholds == << 5, 100, 300 >>

\* the sources the program has seen anything of
Sources ==
    { k[1] : k \in DOMAIN first_contacts } \cup DOMAIN source_connections
    \cup DOMAIN blacklist \cup { r.source : r \in BagToSet(alerts) }

\* i is recorded in listing[s]
Listed(listing, s, i) ==
    s \in DOMAIN listing /\ \E j \in 1..Len(listing[s]) : listing[s][j] = i

\* the calculator runs its threshold loop in this step
AlertStep == pc[Calculator] = "alert" /\ pc'[Calculator] # "alert"

\* C2: alert de-duplication.  For every source S and tier i at most one
\* report (S, i) is ever printed, whatever the other threads do in between;
\* an index once recorded in blacklist[S] stays recorded; and a cycle whose
\* snapshot exceeds a tier that is already recorded for S prints nothing for
\* (S, i).
C2_AlertOncePerTier ==
    /\ [](\A s \in Sources : \A i \in Tiers : Emitted(alerts, s, i) <= 1)
    /\ [][/\ \A s \in DOMAIN blacklist : \A i \in Tiers :
                Listed(blacklist, s, i) => Listed(blacklist', s, i)
          /\ AlertStep =>
                \A s \in DOMAIN source_connections : \A i \in Tiers :
                   (source_connections[s][i + 1] > Thresholds[i + 1]
                       /\ Listed(blacklist, s, i))
                   => Emitted(alerts', s, i) = Emitted(alerts, s, i)]_vars

\* C2 witness: tier 0 was reported for the scanning source in an earlier
\* cycle, and the scan of a later cycle has counted the source above the
\* 1-second threshold again.
C2_Witness ==
    /\ pc[Calculator] = "alert"
    /\ \E s \in DOMAIN source_connections :
          /\ source_connections[s][1] > Thresholds[1]
          /\ Listed(blacklist, s, 0)
          /\ Emitted(alerts, s, 0) = 1

\* C3: soundness and completeness of a cycle.  The threshold loop of a cycle
\* prints a report for source S exactly when some tier i has
\* snapshot[S][i] > 5 / 100 / 300 and i is not yet in blacklist[S].  A source
\* counted six or more times in the 1-second window with nothing recorded
\* for it is reported for tier 0, and no cycle reports a source for the
\* 60-second or 300-second tier while that count is at most 100 resp. 300.
C3_AlertIffExceeded ==
    [][AlertStep =>
         /\ \A s \in Sources :
               (\E i \in Tiers : Emitted(alerts', s, i) > Emitted(alerts, s, i))
               <=> (/\ s \in DOMAIN source_connections
                    /\ \E i \in Tiers : /\ source_connections[s][i + 1] > Thresholds[i + 1]
                                        /\ ~Listed(blacklist, s, i))
         /\ \A s \in DOMAIN source_connections :
               /\ (source_connections[s][1] >= 6 /\ s \notin DOMAIN blacklist)
                     => Emitted(alerts', s, 0) = Emitted(alerts, s, 0) + 1
               /\ \A i \in { 1, 2 } :
                     source_connections[s][i + 1] <= Thresholds[i + 1]
                     => Emitted(alerts', s, i) = Emitted(alerts, s, i)]_vars

\* C3 witness: six flows of one source, all younger than a second, were
\* counted and the source was reported for the 1-second tier and for no other.
C3_Witness ==
    /\ pc[Calculator] = "loop"
    /\ \E s \in DOMAIN source_connections :
          /\ source_connections[s] = << 6, 6, 6 >>
          /\ Emitted(alerts, s, 0) = 1
          /\ Emitted(alerts, s, 1) = 0
          /\ Emitted(alerts, s, 2) = 0
          /\ blacklist[s] = << 0 >>

\* the n-th frame the link delivers
FrameAt(n) == Traffic[traffic][n]

\* a frame shorter than the headers its own fields announce: no Ethernet
\* header, or IPv4 without a full IPv4 header, or TCP / UDP without ports
Truncated(f) ==
    \/ Len(f) < 14
    \/ /\ f[13] = 8 /\ f[14] = 0
       /\ \/ Len(f) < 14 + 20
          \/ f[24] \in { 6, 17 } /\ Len(f) < 14 + 20 + 4

\* C4: a truncated frame does not stop the sniffer: after recvfrom has
\* returned a frame shorter than the header a dissection stage expects, no
\* exception has ended run( ) and the thread is still in its loop.
C4_MalformedFrameSurvived ==
    (delivered > 0 /\ Truncated(FrameAt(delivered)))
    => (pc["sniffer"] # "crashed" /\ exc = "")

\* C5: handling a truncated frame leaves first_contacts as it was and never
\* leaves the lock with the sniffer: from the moment recvfrom returns such a
\* frame the sniffer neither waits for nor holds the lock, and no step it
\* takes changes a key or a timestamp.
C5_MalformedFrameNoEffect ==
    /\ []((delivered > 0 /\ Truncated(FrameAt(delivered)))
             => (pc["sniffer"] \notin { "lock", "cs" } /\ lock # "sniffer"))
    /\ [][(delivered' > 0 /\ Truncated(Traffic[traffic][delivered']) /\ Steps("sniffer"))
             => first_contacts' = first_contacts]_vars

\* C5 witness: a truncated frame was handled while the table held a flow.
C5_Witness ==
    /\ delivered > 0
    /\ Truncated(FrameAt(delivered))
    /\ DOMAIN first_contacts # {}
    /\ pc["sniffer"] = "crashed"
    /\ lock = "free"

\* the cleaner leaves its with-block in this step
SweepStep == pc["cleanup"] = "cs" /\ pc'["cleanup"] # "cs"

\* C6 as stated: when a cleaner cycle releases the lock, no entry is older
\* than max_age_seconds against the clock at that instant.
C6_NoStaleEntryAtRelease ==
    [][SweepStep =>
         \A k \in DOMAIN first_contacts' : now' - first_contacts'[k] <= max_age_seconds]_vars

\* C6 amended: when a cleaner cycle releases the lock, no entry is older than
\* max_age_seconds against the reference time that cycle read before it
\* acquired the lock.
C6_NoStaleEntryAgainstReference ==
    [][SweepStep =>
         \A k \in DOMAIN first_contacts' :
            current_time - first_contacts'[k] <= max_age_seconds]_vars

\* C6 witness: a cycle has completed whose reference time was read before the
\* clock moved on; an entry the cycle kept is older than max_age_seconds by
\* the clock and not by the reference time.
C6_Witness ==
    /\ pc["cleanup"] = "loop"
    /\ current_time > 0
    /\ \E k \in DOMAIN first_contacts :
          /\ now - first_contacts[k] > max_age_seconds
          /\ current_time - first_contacts[k] <= max_age_seconds

\* C7: one cleaner cycle removes exactly the keys with
\* reference - timestamp > max_age_seconds, the reference being read once,
\* at the top of the iteration; every other key stays, with its timestamp.
C7_SweepExact ==
    [][/\ SweepStep =>
            /\ DOMAIN first_contacts' =
                  { k \in DOMAIN first_contacts :
                       ~(current_time - first_contacts[k] > 300) }
            /\ \A k \in DOMAIN first_contacts' : first_contacts'[k] = first_contacts[k]
            /\ current_time' = current_time
       /\ current_time' # current_time => pc["cleanup"] = "loop"]_vars

\* C7 witness: a cycle removed an entry and kept one that was exactly
\* max_age_seconds old.
C7_Witness ==
    /\ pc["cleanup"] = "loop"
    /\ keys_to_remove # {}
    /\ keys_to_remove \cap DOMAIN first_contacts = {}
    /\ \E k \in DOMAIN first_contacts : current_time - first_contacts[k] = 300

\* the sniffer writes the dictionary in this step
UpsertStep == pc["sniffer"] = "cs" /\ pc'["sniffer"] # "cs"

\* C8: a repeated flow does not grow the table.  No two entries agree in
\* source address, destination address and destination port, whatever the
\* source ports of the frames were; an upsert of a key that is present
\* leaves the key set and every other entry's timestamp as they were.
C8_UpsertKeepsSize ==
    /\ [](\A k1, k2 \in DOMAIN first_contacts :
             (k1[1] = k2[1] /\ k1[2] = k2[2] /\ k1[3] = k2[3]) => k1 = k2)
    /\ [][(UpsertStep /\ key \in DOMAIN first_contacts) =>
             /\ DOMAIN first_contacts' = DOMAIN first_contacts
             /\ \A k \in DOMAIN first_contacts \ { key } :
                   first_contacts'[k] = first_contacts[k]]_vars

\* C8 witness: two TCP frames that differ only in their source port were
\* both recorded, and the table holds one entry.
C8_Witness ==
    /\ traffic = "mixed"
    /\ delivered = 2
    /\ pc["sniffer"] = "loop"
    /\ now = 0
    /\ Cardinality(DOMAIN first_contacts) = 1

\* C9: window monotonicity.  In every snapshot the 1-second count of a source
\* is at most its 60-second count, which is at most its 300-second count.
C9_WindowMonotone ==
    \A s \in DOMAIN source_connections :
       /\ source_connections[s][1] <= source_connections[s][2]
       /\ source_connections[s][2] <= source_connections[s][3]

\* C9 witness: a snapshot in which the three counts of a source differ.
C9_Witness ==
    /\ pc[Calculator] = "alert"
    /\ \E s \in DOMAIN source_connections :
          /\ source_connections[s][1] < source_connections[s][2]
          /\ source_connections[s][2] < source_connections[s][3]

\* C10: with a clock that never runs backwards, no entry carries a timestamp
\* later than the clock, and an upsert of a key that is present never lowers
\* its timestamp.
C10_TimestampInvariant ==
    /\ [](\A k \in DOMAIN first_contacts : first_contacts[k] <= now)
    /\ [][(UpsertStep /\ key \in DOMAIN first_contacts) =>
             first_contacts'[key] >= first_contacts[key]]_vars

\* C10 witness: the second frame of a flow refreshed its entry after the
\* clock had moved on.
C10_Witness ==
    /\ traffic = "mixed"
    /\ delivered = 2
    /\ pc["sniffer"] = "loop"
    /\ now = 61
    /\ key \in DOMAIN first_contacts
    /\ first_contacts[key] = 61

\* the step with which the holder of the lock leaves its with-block
HolderReleases == SnifferUpsert \/ CleanupSweep \/ CalculatorScan

\* C11: deadlock freedom.  A thread holds the lock only inside its
\* with-block, so never while it waits to acquire it (no re-acquisition) and,
\* for the sniffer, never while it is blocked in recvfrom; whenever a thread
\* waits for the lock, either the lock is free or another thread holds it
\* whose releasing step can be taken; and under fair scheduling a lock that
\* is held is released, so no thread waits for ever on a holder.
C11_NoDeadlock ==
    /\ [](\A t \in Threads :
             /\ lock = t => pc[t] = "cs"
             /\ pc[t] = "lock" =>
                   /\ lock # t
                   /\ lock = "free" \/ (lock \in Threads /\ ENABLED HolderReleases)
             /\ (t = "sniffer" /\ pc[t] = "recv") => lock # t)
    /\ (lock \in Threads) ~> (lock = "free")

\* C11 witness: the sniffer is blocked in recvfrom without the lock, the
\* cleaner is inside its with-block and the calculator waits for the lock.
C11_Witness ==
    /\ pc["sniffer"] = "recv"
    /\ pc["cleanup"] = "cs"
    /\ lock = "cleanup"
    /\ pc[Calculator] = "lock"

\* the thread has left the loop of its run( )
Exited(t) == pc[t] \in { "done", "crashed" }

\* C12: cooperative shutdown terminates.  Under fair scheduling a thread
\* whose is_running has been set to False eventually leaves its loop; once
\* the flag is False the thread that reaches the head of its loop leaves it,
\* so it finishes at most the iteration in progress; a thread leaves its
\* loop normally only with the flag False, and a timeout of recvfrom leads
\* back to the head of the loop, never out of it.
C12_ShutdownTerminates ==
    /\ \A t \in Threads : (~is_running[t]) ~> Exited(t)
    /\ [][/\ SnifferTimeout => pc'["sniffer"] = "loop"
          /\ \A t \in Threads :
                /\ (pc[t] # "done" /\ pc'[t] = "done") =>
                      pc[t] = "loop" /\ ~is_running[t]
                /\ (pc[t] = "loop" /\ ~is_running[t] /\ Steps(t)) =>
                      pc'[t] = "done"]_vars

\* C12 witness: all three threads have left their loops on the flag, the
\* sniffer with frames still to come on the link.
C12_Witness ==
    /\ \A t \in Threads : pc[t] = "done" /\ ~is_running[t]
    /\ delivered < Len(Traffic[traffic])

\* the thread has passed "while self.is_running" and is in an iteration
InIteration(t) == pc[t] \in { "recv", "lock", "cs", "alert" }

\* C13: a failure to open the capture socket is fatal at startup.  Once
\* socket.socket has failed, neither the cleaner nor the calculator is in an
\* iteration of its loop with its is_running still True, and detect_ps is
\* not waiting for console input as if the capture worked: it has cleared
\* the flags of the threads it started and is joining them, or has returned.
C13_CaptureFailureStopsAll ==
    exc = "OSError" =>
       /\ \A t \in { "cleanup", Calculator } : InIteration(t) => ~is_running[t]
       /\ main_pc # "input"

\* the octets of the frame under dissection from the n-th on (1-based)
ProbeFrom(n) == SubSeq(probe.ethernet_data, n, Len(probe.ethernet_data))

\* the stages of the dissection that have been carried out
EthernetDone == probe.stage \in { "ethernet", "ipv4", "tcp", "udp" }

Ipv4Done == probe.stage \in { "ipv4", "tcp", "udp" }

PortsDone == probe.stage \in { "tcp", "udp" }

\* what ipv4_dissect and tcp_dissect / udp_dissect are to return
TailRoundTrip ==
    /\ Len(probe.ethernet_data) >= 14 + 20 + 4
    /\ Ipv4Done =>
          probe.ipv4 = Returned(<< probe.fields.ip_protocol, probe.fields.src.text,
                                   probe.fields.dst.text, ProbeFrom(14 + 20 + 1) >>)
    /\ PortsDone =>
          probe.ports = Returned(<< probe.fields.src_port, probe.fields.dest_port >>)

Swapped(x) == (x % 256) * 256 + x \div 256

LowestOf(S) == CHOOSE i \in S : \A j \in S : i <= j

\* the indices whose count exceeds the threshold and that are not recorded
Due(s) ==
    { i \in Tiers : /\ source_connections[s][i + 1] > Thresholds[i + 1]
                    /\ ~Listed(blacklist, s, i) }

\* the reports for (s, i) printed in this step
NewReports(s, i) == Emitted(alerts', s, i) - Emitted(alerts, s, i)

\* C15: at most one new alert per source per cycle, lowest tier first.  In
\* the threshold loop of a cycle every source of the snapshot gets at most
\* one report; it gets one exactly when some index exceeds its threshold
\* and is not recorded for the source, and then for the lowest such index,
\* also when lower indices are exceeded but recorded already; that index
\* and no other is appended to blacklist[source].
C15_OneAlertLowestTier ==
    [][AlertStep =>
         \A s \in DOMAIN source_connections :
            /\ NewReports(s, 0) + NewReports(s, 1) + NewReports(s, 2) <= 1
            /\ \A i \in Tiers :
                  /\ NewReports(s, i) = IF Due(s) # {} /\ i = LowestOf(Due(s)) THEN 1 ELSE 0
                  /\ Listed(blacklist', s, i) <=>
                        \/ Listed(blacklist, s, i)
                        \/ Due(s) # {} /\ i = LowestOf(Due(s))
            /\ Len(DictGet(blacklist', s, << >>)) =
                  Len(DictGet(blacklist, s, << >>)) + (IF Due(s) = {} THEN 0 ELSE 1)]_vars

\* C15 witness: a source recorded for the 1-second tier exceeded all three
\* thresholds; the cycle reported it for the 60-second tier and recorded
\* that tier, and nothing for the 300-second tier.
C15_Witness ==
    /\ pc[Calculator] = "loop"
    /\ \E s \in DOMAIN source_connections :
          /\ source_connections[s] = << 6, 101, 301 >>
          /\ blacklist[s] = << 0, 1 >>
          /\ CopiesIn(Report(s, source_connections[s], 1), alerts) = 1
          /\ Emitted(alerts, s, 2) = 0

\* the calculator scans the dictionary and leaves its with-block in this step
ScanStep == pc[Calculator] = "cs" /\ pc'[Calculator] # "cs"

\* the windows as the documentation states them: 1 s, 60 s, 300 s
Windows == << 1, 60, 300 >>

\* the flows of source s in the table that are younger than w at the clock
Younger(s, w) ==
    Cardinality({ k \in DOMAIN first_contacts : k[1] = s /\ now - first_contacts[k] < w })

\* C16: atomic, consistent snapshot.  The snapshot a cycle leaves its
\* with-block with holds, for every source and each of the windows 1 s, 60 s
\* and 300 s, the number of flows of that source in the table as it is at
\* that step that are younger than the window at the clock of that step (a
\* source without such a flow is not in the snapshot); the threshold loop
\* runs without the lock; and no step taken while the calculator is in the
\* threshold loop, its own or another thread's, changes the snapshot.
C16_ConsistentSnapshot ==
    /\ [](pc[Calculator] = "alert" => lock # Calculator)
    /\ [][/\ ScanStep =>
                /\ lock = Calculator /\ lock' = "free"
                /\ DOMAIN source_connections' \subseteq { k[1] : k \in DOMAIN first_contacts }
                /\ \A k \in DOMAIN first_contacts : \A i \in 1..3 :
                      Younger(k[1], Windows[i]) =
                         IF k[1] \in DOMAIN source_connections'
                         THEN source_connections'[k[1]][i] ELSE 0
          /\ pc[Calculator] = "alert" => source_connections' = source_connections]_vars

\* C16 witness: while the calculator is in its threshold loop the table
\* holds more flows of a source than the snapshot counted for it.
C16_Witness ==
    /\ pc[Calculator] = "alert"
    /\ \E s \in DOMAIN source_connections :
          /\ source_connections[s][3] >= 1
          /\ Cardinality({ k \in DOMAIN first_contacts : k[1] = s }) > source_connections[s][3]
          /\ \A k \in DOMAIN first_contacts : first_contacts[k] = now

\* C17: ownership of the table's mutations.  A step after which a key is
\* new or has another timestamp is a step of the sniffer; a step after which
\* a key is gone is a step of the cleaner; no step of the calculator changes
\* the table; and a step of the cleaner leaves every key it keeps with the
\* timestamp it had.
C17_TableOwnership ==
    [][/\ \A k \in DOMAIN first_contacts' :
             (k \notin DOMAIN first_contacts \/ first_contacts'[k] # first_contacts[k])
             => Steps("sniffer")
       /\ DOMAIN first_contacts \ DOMAIN first_contacts' # {} => Steps("cleanup")
       /\ Steps(Calculator) => first_contacts' = first_contacts
       /\ Steps("cleanup") =>
             \A k \in DOMAIN first_contacts' :
                k \in DOMAIN first_contacts /\ first_contacts'[k] = first_contacts[k]]_vars

\* C17 witness: the cleaner has deleted a key and kept another, which the
\* sniffer wrote after the start of the run, and the calculator has scanned
\* the table that holds it.
C17_Witness ==
    /\ keys_to_remove # {}
    /\ pc["cleanup"] = "loop"
    /\ \E k \in DOMAIN first_contacts : first_contacts[k] > 0
    /\ pc[Calculator] = "alert"
    /\ source_connections # EmptyDict
    /\ \A k \in keys_to_remove : k \notin DOMAIN first_contacts

\* recvfrom returns a frame in this step
ReceiveStep == delivered' = delivered + 1

\* the frame says IPv4 (octets 08 00) and TCP or UDP (octet 10 of the IPv4 header)
IsFlowFrame(f) == f[13] = 8 /\ f[14] = 0 /\ f[14 + 10] \in { 6, 17 }

Dotted(a) ==
    ToString(a[1]) \o "." \o ToString(a[2]) \o "." \o ToString(a[3]) \o "." \o ToString(a[4])

\* (src_ip, dst_ip, dst_port) as the octets of the frame give them
FlowKeyOf(f) ==
    << Dotted(SubSeq(f, 27, 30)), Dotted(SubSeq(f, 31, 34)), f[37] * 256 + f[38] >>

\* C18: protocol filter.  A well-formed frame that is IPv4 with IP protocol
\* 6 or 17 sends the sniffer to the lock with the key (src_ip, dst_ip,
\* dst_port) of the frame, and the upsert that follows sets the timestamp of
\* that key to the clock and changes nothing else; any other well-formed
\* frame (ICMP, another IP protocol, not IPv4) sends it back to the head of
\* the loop; and no other step of the sniffer changes the table.
C18_ProtocolFilter ==
    /\ [](pc["sniffer"] \in { "lock", "cs" } =>
             /\ delivered > 0
             /\ IsFlowFrame(FrameAt(delivered))
             /\ key = FlowKeyOf(FrameAt(delivered)))
    /\ [][/\ (ReceiveStep /\ ~Truncated(Traffic[traffic][delivered'])) =>
                IF IsFlowFrame(Traffic[traffic][delivered'])
                THEN pc'["sniffer"] = "lock"
                ELSE pc'["sniffer"] = "loop" /\ first_contacts' = first_contacts
          /\ UpsertStep =>
                first_contacts' =
                   [k \in DOMAIN first_contacts \cup { FlowKeyOf(FrameAt(delivered)) } |->
                       IF k = FlowKeyOf(FrameAt(delivered)) THEN now ELSE first_contacts[k]]
          /\ (Steps("sniffer") /\ ~UpsertStep) => first_contacts' = first_contacts]_vars

\* C18 witness: two TCP frames of one flow, an ICMP frame, an ARP frame and
\* a UDP frame were received; the table holds the TCP flow and the UDP flow
\* and nothing else.
C18_Witness ==
    /\ traffic = "mixed"
    /\ delivered = 5
    /\ pc["sniffer"] = "loop"
    /\ DOMAIN first_contacts = { << "10.0.0.7", "10.0.0.1", 443 >>,
                                 << "10.0.0.7", "10.0.0.1", 53 >> }

\* the thread waits for the lock
Waiting(t) == pc[t] = "lock"

\* C19: no starvation by the cleaner.  When the cleaner leaves its
\* with-block it goes into an idle step (a sleep) before it asks for the
\* lock again, and under fair scheduling a sniffer or calculator that waits
\* for the lock gets it.
C19_NoStarvation ==
    /\ [][SweepStep => pc'["cleanup"] = "sleep"]_vars
    /\ \A t \in { "sniffer", Calculator } : Waiting(t) ~> InCritical(t)

\* detect_ps has left its input loop and cleared all three flags
Joining == main_pc \in { "join_sniffer", "join_cleanup", "join_calculator", "returned" }

\* C20: shutdown ordering of detect_ps.  Up to the terminating line every
\* is_running is True; detect_ps joins no thread before it has set all three
\* flags to False; each join returns only for a thread that has left its
\* loop, the three in the order sniffer, cleanup, calculator; and when
\* detect_ps returns no thread is still running.
C20_ShutdownOrdering ==
    /\ main_pc \in { "start_sniffer", "start_cleanup", "start_calculator", "input" }
          => \A t \in Threads : is_running[t]
    /\ Joining => \A t \in Threads : ~is_running[t]
    /\ main_pc \in { "join_cleanup", "join_calculator", "returned" } => Exited("sniffer")
    /\ main_pc \in { "join_calculator", "returned" } => Exited("cleanup")
    /\ main_pc = "returned" => \A t \in Threads : Exited(t)

\* C20 witness: detect_ps has returned after a run in which the sniffer
\* recorded flows and all three threads left their loops on their flags.
C20_Witness ==
    /\ main_pc = "returned"
    /\ \A t \in Threads : pc[t] = "done"
    /\ DOMAIN first_contacts # {}
    /\ alerts # EmptyBag

\* the reports printed in this step
NewAlerts == { r \in BagToSet(alerts') : CopiesIn(r, alerts') > CopiesIn(r, alerts) }

\* C21: the reported rates match the 5-minute window.  For every report
\* printed by the threshold loop, with c300 the count of the source in the
\* 300-second window of the cycle's snapshot, the per-5-minutes value is
\* c300, the per-minute average times 5 is c300 and the per-second average
\* times 300 is c300 (an average is << numerator, denominator >>); and the
\* loop neither takes nor holds the lock.
C21_RatesMatchWindow ==
    [][AlertStep =>
         /\ lock # Calculator /\ lock' = lock
         /\ \A r \in NewAlerts :
               LET c300 == source_connections[r.source][3]
               IN  /\ r.fanout_per_5m = c300
                   /\ r.fanout_per_1m[1] * 5 = c300 * r.fanout_per_1m[2]
                   /\ r.fanout_per_1s[1] * 300 = c300 * r.fanout_per_1s[2]]_vars

\* the two lines the documentation of detect_ps names
StopLines == { << "x" >>, << "X" >> }

\* C22: termination trigger of detect_ps.  Whatever line the console gives,
\* detect_ps leaves its input loop on it only if the line is x or X; on any
\* other line, the empty one and longer ones included, it stays in the loop
\* and every is_running stays True; and on x or X it does leave the loop.
C22_StopsOnlyOnX ==
    [][\A x \in Lines :
          ReadLineOf(x) =>
             IF x \in StopLines
             THEN main_pc' # "input"
             ELSE main_pc' = "input" /\ \A t \in Threads : is_running'[t]]_vars

\* the keys the cleaner deletes in this step
Deleted == DOMAIN first_contacts \ DOMAIN first_contacts'

\* C23: expiry never deletes a live entry although its reference time is
\* read before the lock is taken.  Every key the cleaner deletes is, at the
\* clock of the deletion, older than max_age_seconds, so no window of the
\* calculator (age < 1, 60, 300) would count it; a key whose timestamp is
\* not before the reference time of the cycle, because the sniffer wrote it
\* after that was read, is kept; and the clock never falls behind the
\* reference time the cleaner holds.
C23_OnlyDeadEntriesDeleted ==
    /\ [](current_time <= now)
    /\ [][SweepStep =>
            /\ \A k \in Deleted :
                  /\ now - first_contacts[k] > max_age_seconds
                  /\ \A i \in 1..3 : ~(now - first_contacts[k] < Windows[i])
            /\ \A k \in DOMAIN first_contacts :
                  first_contacts[k] >= current_time => k \notin Deleted]_vars

\* C23 witness: the cleaner read its reference time, the clock moved on and
\* the sniffer recorded a flow; the cleaner is now inside its with-block,
\* about to delete a flow that is older than max_age_seconds against its
\* reference time and to keep the one recorded after it.
C23_Witness ==
    /\ pc["cleanup"] = "cs"
    /\ current_time < now
    /\ \E k \in DOMAIN first_contacts : Expired(current_time, first_contacts[k])
    /\ \E k \in DOMAIN first_contacts : first_contacts[k] > current_time

====
